---- MODULE Spec2Model ----
(***************************************************************************)
(* Dialogue front desk of src/main.py: the medical gate, the FAQ router,   *)
(* the contact extractor, the step machine of next_reply, the ticket       *)
(* issuer and the in-memory session and ticket stores.                     *)
(*                                                                         *)
(* A Python str is a sequence of one-character strings, so that find,      *)
(* strip, lower and slicing are computed as Python computes them.          *)
(* Positions returned by find are 0-based, -1 when absent, as in Python.   *)
(***************************************************************************)
EXTENDS Integers, Sequences, FiniteSets, TLC

\* ------------------------------------------------------------------------
\* Python values
\* ------------------------------------------------------------------------

\* Python's None for an Optional[str]: a one-element sequence that is no str
\* (its element is not a single character), so it differs from every str.
None == <<"None">>

\* truthiness of an Optional[str]: None and "" are both falsy
Truthy(x) == x # None /\ x # <<>>

Min(S) == CHOOSE x \in S : \A y \in S : x <= y

Max(S) == CHOOSE x \in S : \A y \in S : x >= y

UpperCase == <<"A","B","C","D","E","F","G","H","I","J","K","L","M","N","O","P","Q","R","S","T","U","V","W","X","Y","Z">>

LowerCase == <<"a","b","c","d","e","f","g","h","i","j","k","l","m","n","o","p","q","r","s","t","u","v","w","x","y","z">>

LowerChar(c) ==
    IF \E i \in DOMAIN UpperCase : UpperCase[i] = c
    THEN LowerCase[CHOOSE i \in DOMAIN UpperCase : UpperCase[i] = c]
    ELSE c

\* str.lower()
lower(s) == [i \in 1..Len(s) |-> LowerChar(s[i])]

\* sub occurs in s at 0-based offset i
MatchAt(s, sub, i) == \A j \in 1..Len(sub) : s[i + j] = sub[j]

\* s.find(sub)
find(s, sub) ==
    LET hits == {i \in 0..(Len(s) - Len(sub)) : MatchAt(s, sub, i)}
    IN  IF hits = {} THEN -1 ELSE Min(hits)

\* sub in s
contains(sub, s) == \E i \in 0..(Len(s) - Len(sub)) : MatchAt(s, sub, i)

\* s[i:]
SliceFrom(s, i) == SubSeq(s, i + 1, Len(s))

\* s[:n]
SliceTo(s, n) == SubSeq(s, 1, IF n < Len(s) THEN n ELSE Len(s))

Whitespace == {" ", "\t", "\n", "\r", "\f"}

\* s.lstrip(chars)
lstrip(s, chars) ==
    LET keep == {i \in 1..Len(s) : s[i] \notin chars}
    IN  IF keep = {} THEN <<>> ELSE SubSeq(s, Min(keep), Len(s))

\* s.rstrip(chars)
rstrip(s, chars) ==
    LET keep == {i \in 1..Len(s) : s[i] \notin chars}
    IN  IF keep = {} THEN <<>> ELSE SubSeq(s, 1, Max(keep))

\* s.strip()
strip(s) == rstrip(lstrip(s, Whitespace), Whitespace)

\* s.startswith(prefix)
startswith(s, prefix) == Len(prefix) <= Len(s) /\ MatchAt(s, prefix, 0)

Digits == {"0", "1", "2", "3", "4", "5", "6", "7", "8", "9"}

\* ch.isdigit()
isdigit(ch) == ch \in Digits

\* ------------------------------------------------------------------------
\* Messages (payload.user_message)
\* ------------------------------------------------------------------------

MsgAntibiotics == <<"I"," ","n","e","e","d"," ","a","n","t","i","b","i","o","t","i","c","s"," ","f","o","r"," ","m","y"," ","t","o","o","t","h"," ","p","a","i","n">>

MsgLabelsTomorrow == <<"N","a","m","e",":"," ","A","l","e","x"," ","S","m","i","t","h",","," ","P","h","o","n","e",":"," ","+","4","3","1","2","3","4","5","6","7","8","9",","," ","B","e","s","t"," ","t","i","m","e",":"," ","t","o","m","o","r","r","o","w"," ","m","o","r","n","i","n","g">>

MsgLabelsAnytime == <<"N","a","m","e",":"," ","A","l","e","x"," ","S","m","i","t","h",","," ","P","h","o","n","e",":"," ","+","4","3","1","2","3","4","5","6","7","8","9",","," ","B","e","s","t"," ","t","i","m","e",":"," ","a","n","y","t","i","m","e">>

MsgNameAlex == <<"M","y"," ","n","a","m","e"," ","i","s"," ","A","l","e","x">>

MsgNameJordan == <<"M","y"," ","n","a","m","e"," ","i","s"," ","J","o","r","d","a","n">>

MsgPhone == <<"M","y"," ","p","h","o","n","e"," ","i","s"," ","0","0","4","3"," ","6","6","4"," ","1","2","3","4","5","6","7">>

MsgBooking == <<"I"," ","w","a","n","t"," ","t","o"," ","b","o","o","k"," ","a","n"," ","a","p","p","o","i","n","t","m","e","n","t">>

MsgHours == <<"W","h","a","t"," ","a","r","e"," ","y","o","u","r"," ","o","p","e","n","i","n","g"," ","h","o","u","r","s","?">>

MsgHello == <<"h","e","l","l","o">>

Messages ==
    {MsgAntibiotics, MsgLabelsTomorrow, MsgLabelsAnytime, MsgNameAlex, MsgNameJordan,
     MsgPhone, MsgBooking, MsgHours, MsgHello}

\* Texts for the FAQ matcher: two fragments joined by a blank
FaqWords ==
    {<<"o","p","e","n","i","n","g"," ","h","o","u","r","s">>, <<"T","O","M","O","R","R","O","W">>, <<"b","o","o","k">>, <<"a","n"," ","A","p","p","o","i","n","t","m","e","n","t">>, <<"c","a","n","c","e","l">>, <<"p","a","r","k","i","n","g">>,
     <<"k","i","d","s">>, <<"F","r","i","d","a","y">>, <<"h","e","l","l","o">>}

FaqTexts == {a \o <<" ">> \o b : a, b \in FaqWords}

\* Texts for the PHONE block: lead, number, tail
PhoneLeads == {<<>>, <<"P","h","o","n","e",":"," ">>, <<"t","e","l","=">>, <<"c","a","l","l"," ","m","e"," ","o","n"," ">>}

PhoneNumbers ==
    {<<"1","2","3","4","5">>, <<"1","2","3","4","5","6","7","8">>, <<"+","1","2","3","4","5","6","7","8">>, <<"1","2","3","4","5","6","7","8","9">>, <<"0","0","4","3"," ","6","6","4"," ","1","2","3","4","5","6","7">>, <<"+","4","3"," ","(","6","6","4",")"," ","1","2","3","-","4","5","6","7">>}

PhoneTails == {<<>>, <<","," ","b","e","s","t"," ","t","i","m","e"," ","5","p","m">>, <<"."," ","B","o","r","n"," ","1","2",".","1","2",".","1","9","9","0">>}

PhoneTexts == {a \o b \o c : a \in PhoneLeads, b \in PhoneNumbers, c \in PhoneTails}

\* Texts for the NAME blocks: lead, value, tail
NameLeads == {<<>>, <<"N","a","m","e",":"," ">>, <<"n","a","m","e","=">>, <<"n","i","c","k","n","a","m","e","-">>, <<"M","y"," ","n","a","m","e"," ","i","s"," ">>, <<"I"," ","a","m"," ">>, <<"I","'","M"," ">>}

NameValues == {<<>>, <<"A">>, <<"A","l">>, <<"A","l","e","x"," ","S","m","i","t","h">>}

NameTails == {<<>>, <<","," ","I"," ","a","m"," ","B","o","b">>, <<"."," ","m","y"," ","n","a","m","e"," ","i","s"," ","B","o">>}

NameTexts == {a \o b \o c : a \in NameLeads, b \in NameValues, c \in NameTails}

\* Texts that name a day, and near misses
DayTexts ==
    {<<"B","e","s","t"," ","t","i","m","e",":"," ","T","o","d","a","y"," ","5","p","m">>,
     <<"I"," ","w","a","n","t"," ","t","o"," ","b","o","o","k"," ","a","n"," ","a","p","p","o","i","n","t","m","e","n","t"," ","f","o","r"," ","t","o","m","o","r","r","o","w"," ","a","f","t","e","r","n","o","o","n">>,
     <<"M","y"," ","n","a","m","e"," ","i","s"," ","A","l","e","x",","," ","c","a","l","l"," ","m","e"," ","T","O","M","O","R","R","O","W"," ","o","n"," ","0","0","4","3"," ","6","6","4"," ","1","2","3","4","5","6","7">>,
     <<"S","h","o","u","l","d"," ","I"," ","t","a","k","e"," ","i","b","u","p","r","o","f","e","n"," ","t","o","d","a","y","?">>,
     <<"c","a","n","c","e","l",","," ","n","a","m","e",":"," ","A","l","e","x"," ","S","m","i","t","h",","," ","p","h","o","n","e",":"," ","0","6","6","4"," ","1","2","3","4","5","6","7","8","9",","," ","b","e","s","t"," ","t","i","m","e",":"," ","t","o","-","m","o","r","r","o","w">>,
     <<"N","a","m","e",":"," ","A","l","e","x"," ","S","m","i","t","h",","," ","P","h","o","n","e",":"," ","+","4","3","1","2","3","4","5","6","7","8","9",","," ","B","e","s","t"," ","t","i","m","e",":"," ","F","r","i","d","a","y">>}

\* every text the detectors and the extractor are applied to
Texts == Messages \cup FaqTexts \cup PhoneTexts \cup NameTexts \cup DayTexts

\* ------------------------------------------------------------------------
\* FAQ catalog, in declared order
\* ------------------------------------------------------------------------

FAQ ==
  <<
     [key |-> "hours",
      keywords |-> <<
          <<"h","o","u","r","s">>,
          <<"o","p","e","n","i","n","g">>,
          <<"o","p","e","n">>,
          <<"c","l","o","s","e">>,
          <<"c","l","o","s","i","n","g">>,
          <<"w","e","e","k","e","n","d">>,
          <<"s","a","t","u","r","d","a","y">>,
          <<"s","u","n","d","a","y">>,
          <<"t","o","d","a","y">>,
          <<"t","o","m","o","r","r","o","w">>>>,
      forces_contact_flow |-> FALSE],
     [key |-> "location_parking",
      keywords |-> <<
          <<"a","d","d","r","e","s","s">>,
          <<"l","o","c","a","t","i","o","n">>,
          <<"w","h","e","r","e">>,
          <<"p","a","r","k","i","n","g">>,
          <<"p","a","r","k">>,
          <<"g","a","r","a","g","e">>,
          <<"p","u","b","l","i","c"," ","t","r","a","n","s","p","o","r","t">>,
          <<"t","r","a","m">>,
          <<"m","e","t","r","o">>,
          <<"u","-","b","a","h","n">>,
          <<"b","u","s">>>>,
      forces_contact_flow |-> FALSE],
     [key |-> "booking",
      keywords |-> <<
          <<"a","p","p","o","i","n","t","m","e","n","t">>,
          <<"b","o","o","k">>,
          <<"b","o","o","k","i","n","g">>,
          <<"s","c","h","e","d","u","l","e">>,
          <<"a","v","a","i","l","a","b","l","e">>,
          <<"a","v","a","i","l","a","b","i","l","i","t","y">>>>,
      forces_contact_flow |-> TRUE],
     [key |-> "reschedule_cancel",
      keywords |-> <<
          <<"r","e","s","c","h","e","d","u","l","e">>,
          <<"c","h","a","n","g","e"," ","a","p","p","o","i","n","t","m","e","n","t">>,
          <<"m","o","v","e"," ","a","p","p","o","i","n","t","m","e","n","t">>,
          <<"c","a","n","c","e","l">>,
          <<"c","a","n","c","e","l","l","a","t","i","o","n">>>>,
      forces_contact_flow |-> TRUE],
     [key |-> "emergency",
      keywords |-> <<
          <<"e","m","e","r","g","e","n","c","y">>,
          <<"u","r","g","e","n","t">>,
          <<"s","w","e","l","l","i","n","g">>,
          <<"b","l","e","e","d","i","n","g">>,
          <<"f","e","v","e","r">>,
          <<"c","a","n","U+2019","t"," ","b","r","e","a","t","h","e">>,
          <<"c","a","n","'","t"," ","b","r","e","a","t","h","e">>,
          <<"h","a","r","d"," ","t","o"," ","s","w","a","l","l","o","w">>,
          <<"s","e","v","e","r","e"," ","p","a","i","n">>>>,
      forces_contact_flow |-> TRUE],
     [key |-> "services",
      keywords |-> <<
          <<"s","e","r","v","i","c","e","s">>,
          <<"d","o"," ","y","o","u"," ","d","o">>,
          <<"o","f","f","e","r">>,
          <<"c","l","e","a","n","i","n","g">>,
          <<"f","i","l","l","i","n","g">>,
          <<"i","m","p","l","a","n","t">>,
          <<"b","r","a","c","e","s">>,
          <<"r","o","o","t"," ","c","a","n","a","l">>,
          <<"k","i","d","s">>,
          <<"c","h","i","l","d">>>>,
      forces_contact_flow |-> FALSE],
     [key |-> "pricing_insurance",
      keywords |-> <<
          <<"p","r","i","c","e">>,
          <<"p","r","i","c","i","n","g">>,
          <<"c","o","s","t">>,
          <<"h","o","w"," ","m","u","c","h">>,
          <<"i","n","s","u","r","a","n","c","e">>,
          <<"k","a","s","s","a">>,
          <<"p","r","i","v","a","t","e">>,
          <<"p","a","y","m","e","n","t">>>>,
      forces_contact_flow |-> FALSE],
     [key |-> "what_to_bring",
      keywords |-> <<
          <<"w","h","a","t"," ","t","o"," ","b","r","i","n","g">>,
          <<"b","r","i","n","g">>,
          <<"d","o","c","u","m","e","n","t","s">>,
          <<"p","a","p","e","r","w","o","r","k">>,
          <<"e","-","c","a","r","d">>,
          <<"i","d">>,
          <<"r","e","c","o","r","d","s">>,
          <<"f","i","r","s","t"," ","v","i","s","i","t">>,
          <<"n","e","w"," ","p","a","t","i","e","n","t">>>>,
      forces_contact_flow |-> FALSE]
  >>

\* keywords of is_medical_or_medication_question
MedicalKeywords ==
    << <<"a","n","t","i","b","i","o","t","i","c">>, <<"a","n","t","i","b","i","o","t","i","c","s">>, <<"a","m","o","x","i","c","i","l","l","i","n">>, <<"p","e","n","i","c","i","l","l","i","n">>, <<"c","l","i","n","d","a","m","y","c","i","n">>,
       <<"m","e","d","i","c","i","n","e">>, <<"m","e","d","i","c","a","t","i","o","n">>, <<"d","o","s","e">>, <<"d","o","s","a","g","e">>, <<"s","h","o","u","l","d"," ","i">>,
       <<"i","b","u","p","r","o","f","e","n">>, <<"p","a","i","n","k","i","l","l","e","r">>, <<"p","r","e","s","c","r","i","p","t","i","o","n">> >>

is_medical_or_medication_question(text) ==
    LET t == lower(text)
    IN  \E i \in DOMAIN MedicalKeywords : contains(MedicalKeywords[i], t)

\* the result "no entry" of match_faq_intent
NoFaq == [key |-> "none", keywords |-> <<>>, forces_contact_flow |-> FALSE]

\* the last entry of FAQ, in declared order, one of whose keywords is in the text
match_faq_intent_last_hit(text) ==
    LET t == lower(text)
        hit == {n \in DOMAIN FAQ :
                   \E i \in DOMAIN FAQ[n].keywords : contains(FAQ[n].keywords[i], t)}
    IN  IF hit = {} THEN NoFaq ELSE FAQ[Max(hit)]

\* an entry that forces the contact flow preferred to the entries before it
match_faq_intent_forcing_first(text) ==
    LET t == lower(text)
        hit == {n \in DOMAIN FAQ :
                   \E i \in DOMAIN FAQ[n].keywords : contains(FAQ[n].keywords[i], t)}
        forcing == {n \in hit : FAQ[n].forces_contact_flow}
    IN  IF hit = {} THEN NoFaq
        ELSE IF forcing # {} THEN FAQ[Min(forcing)]
        ELSE FAQ[Min(hit)]

\* first entry of FAQ, in declared order, one of whose keywords is in the text
match_faq_intent(text) ==
    LET t == lower(text)
        hit == {n \in DOMAIN FAQ :
                   \E i \in DOMAIN FAQ[n].keywords : contains(FAQ[n].keywords[i], t)}
    IN  IF hit = {} THEN NoFaq ELSE FAQ[Min(hit)]

\* The two detectors read the text alone, so each is computed once per message.
TextFacts ==
    [m \in Texts |->
        [medical |-> is_medical_or_medication_question(m), faq |-> match_faq_intent(m)]]

\* ------------------------------------------------------------------------
\* Contact extractor (update_collected_from_text)
\* ------------------------------------------------------------------------

\* phone is accepted with at least this many digits
MinPhoneDigits == 9

\* a name is accepted with at least this many characters
MinNameLen == 2

\* an accepted name is truncated to this many characters
MaxNameLen == 80

\* the loop "for stop in [...]: idx2 = low.find(stop); if idx2 != -1: cut":
\* every stop of the list is applied, in order, to what the earlier ones left
RECURSIVE cut_at_stops(_, _)
cut_at_stops(candidate, stops) ==
    IF stops = <<>> THEN candidate
    ELSE LET idx2 == find(lower(candidate), Head(stops))
             cut  == IF idx2 # -1 THEN strip(SliceTo(candidate, idx2)) ELSE candidate
         IN  cut_at_stops(cut, Tail(stops))

\* "".join(ch for ch in s if ch.isdigit() or ch == "+")
digits_of(s) == SelectSeq(s, LAMBDA ch : isdigit(ch) \/ ch = "+")

\* the length of digits, every "+" counted
digit_count_with_plus(digits) == Len(digits)

\* len(digits.replace("+", ""))
digit_count(digits) == Len(SelectSeq(digits, LAMBDA ch : ch # "+"))

PhoneLabels ==
    << <<"p","h","o","n","e",":">>, <<"p","h","o","n","e","=">>, <<"p","h","o","n","e","-">>, <<"t","e","l",":">>, <<"t","e","l","=">>, <<"t","e","l","-">>,
       <<"m","o","b","i","l","e",":">>, <<"m","o","b","i","l","e","=">>, <<"m","o","b","i","l","e","-">> >>

PhoneStops == << <<" ","b","e","s","t"," ","t","i","m","e">>, <<" ","n","a","m","e">>, <<",">>, <<";">>, <<".">> >>

\* the label loop of the PHONE block: the first label of the list found in tl
\* decides (the loop breaks there, accepted or not); None when nothing is assigned
phone_from_label(text, tl) ==
    LET hit == {i \in DOMAIN PhoneLabels : find(tl, PhoneLabels[i]) # -1}
    IN  IF hit = {} THEN None
        ELSE LET key       == PhoneLabels[Min(hit)]
                 pos       == find(tl, key)
                 candidate == cut_at_stops(strip(SliceFrom(text, pos + Len(key))), PhoneStops)
                 digits    == digits_of(candidate)
             IN  IF digit_count(digits) >= MinPhoneDigits THEN digits ELSE None

\* the fallback of the PHONE block: every digit and "+" of the whole message
phone_fallback(text) ==
    LET digits == digits_of(text)
    IN  IF digit_count(digits) >= MinPhoneDigits THEN digits ELSE None

BestTimeMarker == <<"b","e","s","t"," ","t","i","m","e">>

BestTimeSeparators == {" ", ":", ",", "-", "="}

BestTimeStops == << <<" ","p","h","o","n","e">>, <<" ","n","a","m","e">>, <<".">>, <<";">>, <<"|">> >>

BestTimePhrases ==
    << <<"t","o","m","o","r","r","o","w"," ","m","o","r","n","i","n","g">>, <<"t","o","m","o","r","r","o","w"," ","a","f","t","e","r","n","o","o","n">>, <<"t","o","m","o","r","r","o","w"," ","e","v","e","n","i","n","g">>,
       <<"t","o","d","a","y"," ","m","o","r","n","i","n","g">>, <<"t","o","d","a","y"," ","a","f","t","e","r","n","o","o","n">>, <<"t","o","d","a","y"," ","e","v","e","n","i","n","g">>,
       <<"t","o","m","o","r","r","o","w">>, <<"t","o","d","a","y">>, <<"a","n","y","t","i","m","e">> >>

\* the BEST TIME block, entered when best_time is falsy; None when nothing is assigned
best_time_from_text(text, tl) ==
    IF contains(BestTimeMarker, tl)
    THEN LET start == find(tl, BestTimeMarker)
             best0 == strip(SliceFrom(text, start))
             best1 == IF startswith(lower(best0), BestTimeMarker)
                      THEN strip(lstrip(SliceFrom(best0, Len(BestTimeMarker)),
                                        BestTimeSeparators))
                      ELSE best0
             best  == cut_at_stops(best1, BestTimeStops)
         IN  IF best # <<>> THEN best ELSE None
    ELSE LET hit == {i \in DOMAIN BestTimePhrases : contains(BestTimePhrases[i], tl)}
         IN  IF hit = {} THEN None ELSE BestTimePhrases[Min(hit)]

NameLabels == << <<"n","a","m","e",":">>, <<"n","a","m","e","=">>, <<"n","a","m","e","-">> >>

NameLabelStops == << <<" ","p","h","o","n","e">>, <<" ","b","e","s","t"," ","t","i","m","e">>, <<",">>, <<";">>, <<".">> >>

NamePhrases == << <<"m","y"," ","n","a","m","e"," ","i","s"," ">>, <<"i"," ","a","m"," ">>, <<"i","'","m"," ">> >>

NamePhraseStops == << <<" ","p","h","o","n","e">>, <<" ","b","e","s","t"," ","t","i","m","e">>, <<".">>, <<",">>, <<";">>, <<" ","a","n","d"," ">> >>

\* the shared shape of both NAME loops: the first key of the list found in tl
\* decides (the loop breaks there, accepted or not); None when nothing is assigned
name_from_keys(text, tl, keys, stops) ==
    LET hit == {i \in DOMAIN keys : find(tl, keys[i]) # -1}
    IN  IF hit = {} THEN None
        ELSE LET key       == keys[Min(hit)]
                 pos       == find(tl, key)
                 candidate == cut_at_stops(strip(SliceFrom(text, pos + Len(key))), stops)
             IN  IF Len(candidate) >= MinNameLen
                 THEN SliceTo(candidate, MaxNameLen)
                 ELSE None

\* label-based name: "name:", "name=", "name-"
name_from_label(text, tl) == name_from_keys(text, tl, NameLabels, NameLabelStops)

\* phrase-based name: "my name is ", "i am ", "i'm "
name_from_phrase(text, tl) == name_from_keys(text, tl, NamePhrases, NamePhraseStops)

\* What each block assigns for a message when its field is unset. The blocks read
\* the text alone, so this is computed once per message.
Extracted ==
    [m \in Texts |->
        LET text == strip(m)
            tl   == lower(text)
        IN  [phone_label    |-> phone_from_label(text, tl),
             phone_fallback |-> phone_fallback(text),
             best_time      |-> best_time_from_text(text, tl),
             name_label     |-> name_from_label(text, tl),
             name_label_found |-> \E i \in DOMAIN NameLabels : find(tl, NameLabels[i]) # -1,
             name_phrase    |-> name_from_phrase(text, tl)]]

\* a field after a block that assigns value (None: no assignment) to it
assigned(value, cur) == IF value # None THEN value ELSE cur

\* update_collected_from_text without the "if not state.collected.<field>" guards:
\* a later message overwrites a field that is already set
blocks_overwrite(e, collected) ==
    [name      |-> assigned(e.name_phrase, assigned(e.name_label, collected.name)),
     phone     |-> assigned(e.phone_fallback, assigned(e.phone_label, collected.phone)),
     best_time |-> assigned(e.best_time, collected.best_time)]

\* the blocks with the phrase block skipped for a message that holds a name label
blocks_phrase_only_without_label(e, collected) ==
    LET phone1 == IF ~Truthy(collected.phone)
                  THEN assigned(e.phone_label, collected.phone)
                  ELSE collected.phone
        phone2 == IF ~Truthy(phone1) THEN assigned(e.phone_fallback, phone1) ELSE phone1
        best   == IF ~Truthy(collected.best_time)
                  THEN assigned(e.best_time, collected.best_time)
                  ELSE collected.best_time
        name1  == IF ~Truthy(collected.name)
                  THEN assigned(e.name_label, collected.name)
                  ELSE collected.name
        name2  == IF ~Truthy(name1) /\ ~e.name_label_found
                  THEN assigned(e.name_phrase, name1)
                  ELSE name1
    IN  [name |-> name2, phone |-> phone2, best_time |-> best]

\* the blocks of update_collected_from_text in their order (phone by label, phone
\* fallback, best time, name by label, name by phrase), each run only while its
\* field is falsy; e is what the blocks find in the message
blocks(e, collected) ==
    LET phone1 == IF ~Truthy(collected.phone)
                  THEN assigned(e.phone_label, collected.phone)
                  ELSE collected.phone
        phone2 == IF ~Truthy(phone1) THEN assigned(e.phone_fallback, phone1) ELSE phone1
        best   == IF ~Truthy(collected.best_time)
                  THEN assigned(e.best_time, collected.best_time)
                  ELSE collected.best_time
        name1  == IF ~Truthy(collected.name)
                  THEN assigned(e.name_label, collected.name)
                  ELSE collected.name
        name2  == IF ~Truthy(name1) THEN assigned(e.name_phrase, name1) ELSE name1
    IN  [name |-> name2, phone |-> phone2, best_time |-> best]

\* update_collected_from_text(state, user_text): only collected changes
update_collected_from_text(state, user_text) ==
    [state EXCEPT !.collected = blocks(Extracted[user_text], state.collected)]

\* ------------------------------------------------------------------------
\* Step machine (next_reply)
\* ------------------------------------------------------------------------

LIMITED_RESPONSE == "LIMITED_RESPONSE"

COLLECT_CONTACT == "COLLECT_CONTACT"

HANDOFF == "HANDOFF"

Step == {LIMITED_RESPONSE, COLLECT_CONTACT, HANDOFF}

\* Collected()
EmptyCollected == [name |-> None, phone |-> None, best_time |-> None]

\* SessionState()
DefaultState ==
    [step |-> LIMITED_RESPONSE, procedure |-> None, intent |-> None,
     collected |-> EmptyCollected]

\* the list "missing" that next_reply builds three times, labels in fixed order
missing_fields(collected) ==
    (IF ~Truthy(collected.name) THEN <<"name">> ELSE <<>>)
    \o (IF ~Truthy(collected.phone) THEN <<"phone number">> ELSE <<>>)
    \o (IF ~Truthy(collected.best_time) THEN <<"best time to call">> ELSE <<>>)

\* A reply is the template next_reply fills, the FAQ entry whose answer it
\* carries, the missing list it names and the ticket id webchat_message appends.
Reply(template, faq_key, missing) ==
    [template |-> template, faq |-> faq_key, missing |-> missing, ticket_id |-> None]

\* the policy gate, leaving a session that was handed off where it is
policy_gate_keeps_handoff(practice_name, state) ==
    [reply |-> Reply("limited_response_policy", "none", <<>>),
     state |-> IF state.step = HANDOFF THEN state
               ELSE [state EXCEPT !.step = LIMITED_RESPONSE]]

\* branch 1 of next_reply: the policy gate
policy_gate(practice_name, state) ==
    [reply |-> Reply("limited_response_policy", "none", <<>>),
     state |-> [state EXCEPT !.step = LIMITED_RESPONSE]]

\* the forcing branch handing off at once, whatever is still missing
faq_contact_outcome_hands_off_at_once(faq_key, s1) ==
    [reply |-> Reply("faq_answer_handoff", faq_key, <<>>),
     state |-> [s1 EXCEPT !.step = HANDOFF]]

\* branch 2 of next_reply, FAQ entry that forces the contact flow: what follows
\* the call of the extractor, s1 being the state it returned
faq_contact_outcome(faq_key, s1) ==
    IF missing_fields(s1.collected) # <<>>
    THEN [reply |-> Reply("faq_answer_still_need", faq_key, missing_fields(s1.collected)),
          state |-> s1]
    ELSE [reply |-> Reply("faq_answer_handoff", faq_key, <<>>),
          state |-> [s1 EXCEPT !.step = HANDOFF]]

\* branch 2 of next_reply, FAQ entry that forces the contact flow
faq_contact_flow(faq_key, user_text, state) ==
    faq_contact_outcome(faq_key,
        update_collected_from_text([state EXCEPT !.step = COLLECT_CONTACT], user_text))

\* branch 2 of next_reply, FAQ entry that does not force the contact flow
faq_plain(faq_key, state) ==
    IF state.step # COLLECT_CONTACT
    THEN [reply |-> Reply("faq_answer", faq_key, <<>>), state |-> state]
    ELSE [reply |-> Reply(IF missing_fields(state.collected) # <<>>
                          THEN "faq_answer_still_need" ELSE "faq_answer",
                          faq_key, missing_fields(state.collected)),
          state |-> state]

\* branch 3 handing off as soon as a name and a phone are there
contact_outcome_without_best_time(s1) ==
    IF ~Truthy(s1.collected.name) \/ ~Truthy(s1.collected.phone)
    THEN [reply |-> Reply("callback_still_need", "none", missing_fields(s1.collected)),
          state |-> [s1 EXCEPT !.step = COLLECT_CONTACT]]
    ELSE [reply |-> Reply("handoff", "none", <<>>),
          state |-> [s1 EXCEPT !.step = HANDOFF]]

\* branch 3 of next_reply: what follows the call of the extractor, s1 being the
\* state it returned
contact_outcome(s1) ==
    IF missing_fields(s1.collected) # <<>>
    THEN [reply |-> Reply("callback_still_need", "none", missing_fields(s1.collected)),
          state |-> [s1 EXCEPT !.step = COLLECT_CONTACT]]
    ELSE [reply |-> Reply("handoff", "none", <<>>),
          state |-> [s1 EXCEPT !.step = HANDOFF]]

\* branch 3 of next_reply: contact collection
contact_collection(user_text, state) ==
    contact_outcome(update_collected_from_text(state, user_text))

\* branch 4, putting the session back into contact collection
already_handed_off_reopens(state) ==
    [reply |-> Reply("already_handed_off", "none", <<>>),
     state |-> [state EXCEPT !.step = COLLECT_CONTACT]]

\* branch 4 of next_reply: already handed off
already_handed_off(state) ==
    [reply |-> Reply("already_handed_off", "none", <<>>), state |-> state]

\* the branches of next_reply with branch 3 entered in every step, HANDOFF included
route_collects_in_every_step(practice_name, user_text, state, facts) ==
    IF facts.medical
    THEN policy_gate(practice_name, state)
    ELSE IF facts.faq # NoFaq
         THEN IF facts.faq.forces_contact_flow
              THEN faq_contact_flow(facts.faq.key, user_text, state)
              ELSE faq_plain(facts.faq.key, state)
         ELSE contact_collection(user_text, state)

\* the branches of next_reply with the extractor run before a plain FAQ answer
\* while contact details are being collected
route_extracts_on_plain_faq(practice_name, user_text, state, facts) ==
    IF facts.medical
    THEN policy_gate(practice_name, state)
    ELSE IF facts.faq # NoFaq
         THEN IF facts.faq.forces_contact_flow
              THEN faq_contact_flow(facts.faq.key, user_text, state)
              ELSE IF state.step = COLLECT_CONTACT
                   THEN faq_plain(facts.faq.key,
                                  update_collected_from_text(state, user_text))
                   ELSE faq_plain(facts.faq.key, state)
         ELSE IF state.step \in {LIMITED_RESPONSE, COLLECT_CONTACT}
              THEN contact_collection(user_text, state)
              ELSE already_handed_off(state)

\* the branches of next_reply, facts being what the two detectors say of user_text
route(practice_name, user_text, state, facts) ==
    IF facts.medical
    THEN policy_gate(practice_name, state)
    ELSE IF facts.faq # NoFaq
         THEN IF facts.faq.forces_contact_flow
              THEN faq_contact_flow(facts.faq.key, user_text, state)
              ELSE faq_plain(facts.faq.key, state)
         ELSE IF state.step \in {LIMITED_RESPONSE, COLLECT_CONTACT}
              THEN contact_collection(user_text, state)
              ELSE already_handed_off(state)

\* next_reply(practice_name, user_text, state) -> (reply, state)
next_reply(practice_name, user_text, state) ==
    route(practice_name, user_text, state, TextFacts[user_text])

\* ------------------------------------------------------------------------
\* Ticket issuer (create_ticket)
\* ------------------------------------------------------------------------

\* width of the zero-padded number in "T-{TICKET_COUNTER:04d}"
TicketIdWidth == 4

\* payload.user_message[:140]
MaxSummaryLen == 140

DigitChars == <<"0","1","2","3","4","5","6","7","8","9">>

\* str(n) for n >= 0
RECURSIVE decimal(_)
decimal(n) ==
    IF n < 10 THEN <<DigitChars[n + 1]>>
    ELSE decimal(n \div 10) \o <<DigitChars[(n % 10) + 1]>>

\* the format spec 04d: zero-padded to the width, never truncated
zero_pad(s, width) ==
    IF Len(s) >= width THEN s ELSE [i \in 1..(width - Len(s)) |-> "0"] \o s

\* f"T-{TICKET_COUNTER:04d}"
ticket_id_of(counter) == <<"T","-">> \o zero_pad(decimal(counter), TicketIdWidth)

\* f"Callback requested. Latest user message: {payload.user_message[:140]}"
summary_of(user_message) ==
    <<"C","a","l","l","b","a","c","k"," ","r","e","q","u","e","s","t","e","d","."," ","L","a","t","e","s","t"," ","u","s","e","r"," ","m","e","s","s","a","g","e",":"," ">> \o SliceTo(user_message, MaxSummaryLen)

\* x or ""
or_empty(x) == IF Truthy(x) THEN x ELSE <<>>

\* Ticket(...) as create_ticket fills it; created_at (the wall clock) is left out
Ticket(counter, session_id, practice_name, state, summary) ==
    [ticket_id     |-> ticket_id_of(counter),
     session_id    |-> session_id,
     practice_name |-> practice_name,
     name          |-> or_empty(state.collected.name),
     phone         |-> or_empty(state.collected.phone),
     best_time     |-> or_empty(state.collected.best_time),
     summary       |-> summary,
     status        |-> "OPEN"]

\* TICKET_DB.append(ticket): the newest ticket goes to the end
insert_last(db, ticket) == Append(db, ticket)

\* TICKET_DB.insert(0, ticket)
insert_first(db, ticket) == <<ticket>> \o db

\* the ticket condition read after the turn only (no snapshot of the old step)
issues_ticket_whenever_handed_off(old_step, new_step) == new_step = HANDOFF

\* the condition under which webchat_message creates a ticket
issues_ticket(old_step, new_step) == old_step # HANDOFF /\ new_step = HANDOFF

\* ------------------------------------------------------------------------
\* Inputs
\* ------------------------------------------------------------------------

Sessions == {"s1", "s2"}

PracticeNames == {"Example Dental Clinic"}

\* "no state given" in a payload (Optional[SessionState] = None)
NoState == [step |-> "None", procedure |-> None, intent |-> None,
            collected |-> EmptyCollected]

FullCollected ==
    [name |-> <<"S","a","m">>, phone |-> <<"+","4","3","6","6","4","1","2","3","4","5","6","7","8">>, best_time |-> <<"a","f","t","e","r"," ","5","p","m">>]

\* states a client may send as payload.state
ClientStates ==
    {[DefaultState EXCEPT !.step = HANDOFF],
     [DefaultState EXCEPT !.step = COLLECT_CONTACT, !.collected = FullCollected]}

\* states a client may send as payload.prior_state
ClientPriorStates ==
    {[DefaultState EXCEPT !.collected = [EmptyCollected EXCEPT !.name = <<"S","a","m">>]]}

\* IncomingMessage
Payload(session_id, user_message, practice_name, prior_state, state) ==
    [session_id |-> session_id, user_message |-> user_message,
     practice_name |-> practice_name, prior_state |-> prior_state, state |-> state]

\* total number of requests (messages and resets) of a run
MaxTurns == 3

\* requests handled one at a time before the concurrent ones begin
MaxWarmup == 1

\* worker threads of the server's thread pool, one request each
Threads == {"t1", "t2"}

\* messages of the concurrent requests
ConcurrentMessages == {MsgLabelsAnytime, MsgNameAlex, MsgPhone, MsgAntibiotics}

\* number of requests of a run that carry a client-supplied state
MaxClientTurns == 1

\* ------------------------------------------------------------------------
\* State
\* ------------------------------------------------------------------------

VARIABLES
    SESSION_DB,      \* session_id -> reference of the stored SessionState object
    heap,            \* reference -> SessionState object (objects are mutated in place)
    TICKET_DB,       \* list of tickets
    TICKET_COUNTER,  \* last ticket number handed out
    response,        \* OutgoingMessage of the last webchat_message
    call,            \* the last request: its operation and payload, and what get_state selected
    turns,           \* requests handled so far
    clientTurns,     \* requests so far that carried a client-supplied state
    transcript,      \* the requests handled so far, in order (kept by SpecStored)
    issued,          \* history: the id of every ticket created so far, in order
    pc,              \* per worker thread: where it is in its request
    req,             \* per worker thread: the payload of its request
    loc,             \* per worker thread: the locals of webchat_message and create_ticket
    result,          \* per worker thread: what its request returned
    base            \* history: the store when the first concurrent request began

vars == <<SESSION_DB, heap, TICKET_DB, TICKET_COUNTER, response, call, turns,
          clientTurns, transcript, issued, pc, req, loc, result, base>>

threadVars == <<pc, req, loc, result, base>>

\* the object a session's stored state lives in once a request has returned
ObjOf(session_id) == <<"stored", session_id>>

\* the stored state of a session, by value
stored_state(session_id) == heap[SESSION_DB[session_id]]

NoTicketInfo == [ticket_id |-> None, status |-> "None"]

NoResponse ==
    [session_id |-> "none", user_message |-> <<>>, practice_name |-> "none",
     reply |-> Reply("none", "none", <<>>), state |-> NoState, ticket |-> NoTicketInfo]

NoCall ==
    [op |-> "none", session_id |-> "none", user_message |-> <<>>,
     state |-> NoState, prior_state |-> NoState,
     source |-> "none", old_state |-> NoState, old_step |-> "None"]

\* the store by value: session states, ticket list, ticket counter
Store(db, tickets, counter) == [db |-> db, tickets |-> tickets, counter |-> counter]

NoStore == Store(<<>>, <<>>, -1)

CurrentStore ==
    Store([sid \in DOMAIN SESSION_DB |-> stored_state(sid)], TICKET_DB, TICKET_COUNTER)

NoPayload == Payload("none", <<>>, "none", NoState, NoState)

\* locals of a request: the object get_state returned, the snapshot of its step,
\* the reply of next_reply, the counter value read by "TICKET_COUNTER += 1" and
\* the ticket create_ticket built
NoLocals ==
    [old_state |-> <<"none", "none">>, old_step |-> "None",
     reply |-> Reply("none", "none", <<>>), counter |-> -1,
     ticket |-> Ticket(0, "none", "none", NoState, <<>>)]

Init ==
    /\ SESSION_DB = <<>>
    /\ heap = <<>>
    /\ TICKET_DB = <<>>
    /\ TICKET_COUNTER = 0
    /\ response = NoResponse
    /\ call = NoCall
    /\ turns = 0
    /\ clientTurns = 0
    /\ transcript = <<>>
    /\ issued = <<>>
    /\ pc = [t \in Threads |-> "idle"]
    /\ req = [t \in Threads |-> NoPayload]
    /\ loc = [t \in Threads |-> NoLocals]
    /\ result = [t \in Threads |-> NoResponse]
    /\ base = NoStore

\* ------------------------------------------------------------------------
\* Session store
\* ------------------------------------------------------------------------

\* which of its four sources get_state takes the state from
get_state_source(payload) ==
    IF payload.state # NoState THEN "state"
    ELSE IF payload.prior_state # NoState THEN "prior_state"
    ELSE IF payload.session_id \in DOMAIN SESSION_DB THEN "stored"
    ELSE "default"

\* get_state with payload.prior_state tested before payload.state
get_state_prior_state_first(payload) ==
    IF payload.prior_state # NoState THEN payload.prior_state
    ELSE IF payload.state # NoState THEN payload.state
    ELSE IF payload.session_id \in DOMAIN SESSION_DB THEN stored_state(payload.session_id)
    ELSE DefaultState

\* get_state(payload), by value
get_state(payload) ==
    CASE get_state_source(payload) = "state"       -> payload.state
      [] get_state_source(payload) = "prior_state" -> payload.prior_state
      [] get_state_source(payload) = "stored"      -> stored_state(payload.session_id)
      [] OTHER                                     -> DefaultState

\* f with key k bound to v (dict assignment)
Put(f, k, v) == [x \in (DOMAIN f) \cup {k} |-> IF x = k THEN v ELSE f[x]]

\* f without key k (dict.pop(k, None))
Pop(f, k) == [x \in (DOMAIN f) \ {k} |-> f[x]]

\* ------------------------------------------------------------------------
\* Requests, handled one at a time
\* ------------------------------------------------------------------------

\* the ticket number taken from the size of the ticket list
next_counter_from_list(counter) == Len(TICKET_DB) + 1

\* TICKET_COUNTER += 1
next_counter(counter) == counter + 1

\* webchat_message from the call of save_state on: old_step is the snapshot taken
\* before next_reply, r is what next_reply returned
finish_message(payload, source, old_state, old_step, r) ==
    LET sid    == payload.session_id
        issue  == issues_ticket(old_step, r.state.step)
        ticket == Ticket(next_counter(TICKET_COUNTER), sid, payload.practice_name,
                         r.state, summary_of(payload.user_message))
    IN  /\ SESSION_DB' = Put(SESSION_DB, sid, ObjOf(sid))
        /\ heap' = Put(heap, ObjOf(sid), r.state)
        /\ TICKET_COUNTER' = IF issue THEN next_counter(TICKET_COUNTER) ELSE TICKET_COUNTER
        /\ TICKET_DB' = IF issue THEN insert_first(TICKET_DB, ticket) ELSE TICKET_DB
        /\ response' =
              [session_id    |-> sid,
               user_message  |-> payload.user_message,
               practice_name |-> payload.practice_name,
               reply         |-> IF issue
                                 THEN [r.reply EXCEPT !.ticket_id = ticket.ticket_id]
                                 ELSE r.reply,
               state         |-> r.state,
               ticket        |-> IF issue
                                 THEN [ticket_id |-> ticket.ticket_id,
                                       status |-> ticket.status]
                                 ELSE NoTicketInfo]
        /\ call' = [op |-> "webchat_message", session_id |-> sid,
                    user_message |-> payload.user_message,
                    state |-> payload.state, prior_state |-> payload.prior_state,
                    source |-> source,
                    old_state |-> old_state, old_step |-> old_step]
        /\ issued' = IF issue THEN Append(issued, ticket.ticket_id) ELSE issued
        /\ turns' = turns + 1

\* webchat_message from the snapshot of the step on
answer_message(payload, source, old_state) ==
    finish_message(payload, source, old_state, old_state.step,
                   next_reply(payload.practice_name, payload.user_message, old_state))

\* POST /webchat/message
webchat_message(payload) ==
    answer_message(payload, get_state_source(payload), get_state(payload))

\* a reset that forgets the session and leaves the ticket list alone
reset_session_keeps_tickets(session_id) ==
    /\ SESSION_DB' = Pop(SESSION_DB, session_id)
    /\ heap' = Pop(heap, ObjOf(session_id))
    /\ response' = NoResponse
    /\ call' = [NoCall EXCEPT !.op = "reset_session", !.session_id = session_id]
    /\ turns' = turns + 1
    /\ UNCHANGED <<TICKET_DB, TICKET_COUNTER, issued>>

\* POST /admin/reset_session/{session_id}
reset_session(session_id) ==
    /\ SESSION_DB' = Pop(SESSION_DB, session_id)
    /\ heap' = Pop(heap, ObjOf(session_id))
    /\ TICKET_DB' = SelectSeq(TICKET_DB, LAMBDA t : t.session_id # session_id)
    /\ response' = NoResponse
    /\ call' = [NoCall EXCEPT !.op = "reset_session", !.session_id = session_id]
    /\ turns' = turns + 1
    /\ UNCHANGED <<TICKET_COUNTER, issued>>

\* a message whose payload carries no state: the stored state is used
StoredMessage ==
    /\ turns < MaxTurns
    /\ \E sid \in Sessions, m \in Messages, p \in PracticeNames :
          webchat_message(Payload(sid, m, p, NoState, NoState))
    /\ UNCHANGED <<clientTurns, transcript, threadVars>>

\* a message whose payload carries state, prior_state or both
ClientMessage ==
    /\ turns < MaxTurns
    /\ clientTurns < MaxClientTurns
    /\ \E sid \in Sessions, m \in Messages, p \in PracticeNames,
          ps \in ClientPriorStates \cup {NoState}, s \in ClientStates \cup {NoState} :
          /\ ps # NoState \/ s # NoState
          /\ webchat_message(Payload(sid, m, p, ps, s))
    /\ clientTurns' = clientTurns + 1
    /\ UNCHANGED <<transcript, threadVars>>

Reset ==
    /\ turns < MaxTurns
    /\ \E sid \in Sessions : reset_session(sid)
    /\ UNCHANGED <<clientTurns, transcript, threadVars>>

Next == StoredMessage \/ ClientMessage \/ Reset

\* every request the API accepts, one at a time
Spec == Init /\ [][Next]_vars

\* an entry of the transcript
Entry(op, session_id, user_message) ==
    [op |-> op, session_id |-> session_id, user_message |-> user_message]

\* StoredMessage, with the request written to the transcript
LoggedMessage ==
    /\ turns < MaxTurns
    /\ \E sid \in Sessions, m \in Messages, p \in PracticeNames :
          /\ webchat_message(Payload(sid, m, p, NoState, NoState))
          /\ transcript' = Append(transcript, Entry("webchat_message", sid, m))
    /\ UNCHANGED <<clientTurns, threadVars>>

\* Reset, with the request written to the transcript
LoggedReset ==
    /\ turns < MaxTurns
    /\ \E sid \in Sessions :
          /\ reset_session(sid)
          /\ transcript' = Append(transcript, Entry("reset_session", sid, <<>>))
    /\ UNCHANGED <<clientTurns, threadVars>>

NextStored == LoggedMessage \/ LoggedReset

\* sessions driven through the stored state only, one request at a time
SpecStored == Init /\ [][NextStored]_vars

\* ------------------------------------------------------------------------
\* Requests handled concurrently
\*
\* webchat_message is a plain "def" route, which the server runs on worker
\* threads, and nothing in main.py takes a lock. A thread may be preempted
\* between any two statements and inside "TICKET_COUNTER += 1" (a read, an add
\* and a write). next_reply runs as one step here: its writes to the state
\* object all land before another thread looks.
\* ------------------------------------------------------------------------

\* the object a request creates when get_state does not return the stored one
\* (the parsed payload.state or payload.prior_state, or a new SessionState())
ReqObj(t) == <<"request", t>>

AllIdle == \A t \in Threads : pc[t] = "idle"

AllDone == \A t \in Threads : pc[t] = "done"

\* a request handled alone before any concurrent request has begun
Warmup ==
    /\ AllIdle
    /\ turns < MaxWarmup
    /\ \E sid \in Sessions, m \in Messages, p \in PracticeNames :
          webchat_message(Payload(sid, m, p, NoState, NoState))
    /\ UNCHANGED <<clientTurns, transcript, threadVars>>

\* a request arrives and is given to worker t
Arrive(t) ==
    /\ pc[t] = "idle"
    /\ \E sid \in Sessions, m \in ConcurrentMessages, p \in PracticeNames :
          req' = [req EXCEPT ![t] = Payload(sid, m, p, NoState, NoState)]
    /\ pc' = [pc EXCEPT ![t] = "get_state"]
    /\ base' = IF AllIdle THEN CurrentStore ELSE base
    /\ UNCHANGED <<SESSION_DB, heap, TICKET_DB, TICKET_COUNTER, response, call, turns,
                   clientTurns, transcript, issued, loc, result>>

\* old_state = get_state(payload): the stored object itself, or a new object
GetState(t) ==
    /\ pc[t] = "get_state"
    /\ LET source == get_state_source(req[t])
           ref    == IF source = "stored" THEN SESSION_DB[req[t].session_id]
                     ELSE ReqObj(t)
       IN  /\ heap' = IF source = "stored" THEN heap
                      ELSE Put(heap, ReqObj(t), get_state(req[t]))
           /\ loc' = [loc EXCEPT ![t].old_state = ref]
    /\ pc' = [pc EXCEPT ![t] = "old_step"]
    /\ UNCHANGED <<SESSION_DB, TICKET_DB, TICKET_COUNTER, response, call, turns,
                   clientTurns, transcript, issued, req, result, base>>

\* old_step = old_state.step
SnapshotStep(t) ==
    /\ pc[t] = "old_step"
    /\ loc' = [loc EXCEPT ![t].old_step = heap[loc[t].old_state].step]
    /\ pc' = [pc EXCEPT ![t] = "next_reply"]
    /\ UNCHANGED <<SESSION_DB, heap, TICKET_DB, TICKET_COUNTER, response, call, turns,
                   clientTurns, transcript, issued, req, result, base>>

\* reply, new_state = next_reply(...): the object is mutated in place and
\* new_state is old_state
NextReply(t) ==
    /\ pc[t] = "next_reply"
    /\ LET r == next_reply(req[t].practice_name, req[t].user_message,
                           heap[loc[t].old_state])
       IN  /\ heap' = [heap EXCEPT ![loc[t].old_state] = r.state]
           /\ loc' = [loc EXCEPT ![t].reply = r.reply]
    /\ pc' = [pc EXCEPT ![t] = "save_state"]
    /\ UNCHANGED <<SESSION_DB, TICKET_DB, TICKET_COUNTER, response, call, turns,
                   clientTurns, transcript, issued, req, result, base>>

\* save_state(payload.session_id, new_state)
SaveState(t) ==
    /\ pc[t] = "save_state"
    /\ SESSION_DB' = Put(SESSION_DB, req[t].session_id, loc[t].old_state)
    /\ pc' = [pc EXCEPT ![t] = "ticket_check"]
    /\ UNCHANGED <<heap, TICKET_DB, TICKET_COUNTER, response, call, turns,
                   clientTurns, transcript, issued, req, loc, result, base>>

\* if old_step != Step.HANDOFF and new_state.step == Step.HANDOFF
TicketCheck(t) ==
    /\ pc[t] = "ticket_check"
    /\ pc' = [pc EXCEPT ![t] =
                 IF issues_ticket(loc[t].old_step, heap[loc[t].old_state].step)
                 THEN "counter_read" ELSE "return"]
    /\ UNCHANGED <<SESSION_DB, heap, TICKET_DB, TICKET_COUNTER, response, call, turns,
                   clientTurns, transcript, issued, req, loc, result, base>>

\* TICKET_COUNTER += 1, the read
CounterRead(t) ==
    /\ pc[t] = "counter_read"
    /\ loc' = [loc EXCEPT ![t].counter = TICKET_COUNTER]
    /\ pc' = [pc EXCEPT ![t] = "counter_write"]
    /\ UNCHANGED <<SESSION_DB, heap, TICKET_DB, TICKET_COUNTER, response, call, turns,
                   clientTurns, transcript, issued, req, result, base>>

\* TICKET_COUNTER += 1, the add and the write
CounterWrite(t) ==
    /\ pc[t] = "counter_write"
    /\ TICKET_COUNTER' = next_counter(loc[t].counter)
    /\ pc' = [pc EXCEPT ![t] = "ticket"]
    /\ UNCHANGED <<SESSION_DB, heap, TICKET_DB, response, call, turns,
                   clientTurns, transcript, issued, req, loc, result, base>>

\* ticket = Ticket(ticket_id=f"T-{TICKET_COUNTER:04d}", ...): the global is read again
MakeTicket(t) ==
    /\ pc[t] = "ticket"
    /\ loc' = [loc EXCEPT ![t].ticket =
                   Ticket(TICKET_COUNTER, req[t].session_id, req[t].practice_name,
                          heap[loc[t].old_state], summary_of(req[t].user_message))]
    /\ pc' = [pc EXCEPT ![t] = "insert"]
    /\ UNCHANGED <<SESSION_DB, heap, TICKET_DB, TICKET_COUNTER, response, call, turns,
                   clientTurns, transcript, issued, req, result, base>>

\* TICKET_DB.insert(0, ticket)
InsertTicket(t) ==
    /\ pc[t] = "insert"
    /\ TICKET_DB' = insert_first(TICKET_DB, loc[t].ticket)
    /\ issued' = Append(issued, loc[t].ticket.ticket_id)
    /\ pc' = [pc EXCEPT ![t] = "return"]
    /\ UNCHANGED <<SESSION_DB, heap, TICKET_COUNTER, response, call, turns,
                   clientTurns, transcript, req, loc, result, base>>

\* return OutgoingMessage(...): the state object is serialised as it is now
Return(t) ==
    /\ pc[t] = "return"
    /\ LET issue == loc[t].ticket.session_id # "none"
       IN  result' = [result EXCEPT ![t] =
              [session_id    |-> req[t].session_id,
               user_message  |-> req[t].user_message,
               practice_name |-> req[t].practice_name,
               reply         |-> IF issue
                                 THEN [loc[t].reply EXCEPT
                                          !.ticket_id = loc[t].ticket.ticket_id]
                                 ELSE loc[t].reply,
               state         |-> heap[loc[t].old_state],
               ticket        |-> IF issue
                                 THEN [ticket_id |-> loc[t].ticket.ticket_id,
                                       status |-> loc[t].ticket.status]
                                 ELSE NoTicketInfo]]
    /\ pc' = [pc EXCEPT ![t] = "done"]
    /\ UNCHANGED <<SESSION_DB, heap, TICKET_DB, TICKET_COUNTER, response, call, turns,
                   clientTurns, transcript, issued, req, loc, base>>

NextConcurrent ==
    \/ Warmup
    \/ \E t \in Threads :
          \/ Arrive(t)
          \/ GetState(t)
          \/ SnapshotStep(t)
          \/ NextReply(t)
          \/ SaveState(t)
          \/ TicketCheck(t)
          \/ CounterRead(t)
          \/ CounterWrite(t)
          \/ MakeTicket(t)
          \/ InsertTicket(t)
          \/ Return(t)

\* two requests on worker threads, after at most MaxWarmup requests handled alone
SpecConcurrent == Init /\ [][NextConcurrent]_vars

\* ------------------------------------------------------------------------
\* A request handled alone, as a function of the store
\* ------------------------------------------------------------------------

\* get_state(payload) against a store given by value
get_state_in(store, payload) ==
    IF payload.state # NoState THEN payload.state
    ELSE IF payload.prior_state # NoState THEN payload.prior_state
    ELSE IF payload.session_id \in DOMAIN store.db THEN store.db[payload.session_id]
    ELSE DefaultState

\* webchat_message from the call of save_state on, against a store given by value
finish_alone(store, payload, old_step, r) ==
    IF issues_ticket(old_step, r.state.step)
    THEN Store(Put(store.db, payload.session_id, r.state),
               insert_first(store.tickets,
                            Ticket(next_counter(store.counter), payload.session_id,
                                   payload.practice_name, r.state,
                                   summary_of(payload.user_message))),
               next_counter(store.counter))
    ELSE Store(Put(store.db, payload.session_id, r.state), store.tickets, store.counter)

\* webchat_message from the snapshot of the step on, against a store given by value
answer_alone(store, payload, old_state) ==
    finish_alone(store, payload, old_state.step,
                 next_reply(payload.practice_name, payload.user_message, old_state))

\* the store after webchat_message(payload) has run alone on store
handled_alone(store, payload) == answer_alone(store, payload, get_state_in(store, payload))


\* ------------------------------------------------------------------------
\* reset_session handled concurrently with other requests
\*
\* reset_session is a plain "def" route as well. Its last statement evaluates
\* "[t for t in TICKET_DB if t.session_id != session_id]" over the list object
\* bound to the global when the loop begins, one element per step and by index
\* (a list iterator), and then binds the global to the new list. An insert of
\* another thread between two elements goes into the list being read.
\* ------------------------------------------------------------------------

\* the request of POST /admin/reset_session/{session_id}: a session id alone
ResetPayload(session_id) == Payload(session_id, <<>>, "none", NoState, NoState)

\* locals of reset_session: live says that the list being read is still the one
\* bound to TICKET_DB (list keeps its elements once it is not), idx is the index
\* the iterator reads next, out the list built so far
ResetLocals(live, list, idx, out) ==
    [old_state |-> <<"none", "none">>, old_step |-> "None",
     reply |-> Reply("none", "none", <<>>), counter |-> -1,
     ticket |-> Ticket(0, "none", "none", NoState, <<>>),
     live |-> live, list |-> list, idx |-> idx, out |-> out]

\* worker t is inside the list comprehension of reset_session
Iterating(t) == pc[t] = "reset_iter"

\* the elements of the list worker t is reading, as they are now
IterList(t) == IF loc[t].live THEN TICKET_DB ELSE loc[t].list

\* a reset arrives and is given to worker t
ResetArrive(t) ==
    /\ pc[t] = "idle"
    /\ \E sid \in Sessions : req' = [req EXCEPT ![t] = ResetPayload(sid)]
    /\ pc' = [pc EXCEPT ![t] = "reset_pop"]
    /\ base' = IF AllIdle THEN CurrentStore ELSE base
    /\ UNCHANGED <<SESSION_DB, heap, TICKET_DB, TICKET_COUNTER, response, call, turns,
                   clientTurns, transcript, issued, loc, result>>

\* SESSION_DB.pop(session_id, None)
ResetPop(t) ==
    /\ pc[t] = "reset_pop"
    /\ SESSION_DB' = Pop(SESSION_DB, req[t].session_id)
    /\ pc' = [pc EXCEPT ![t] = "reset_load"]
    /\ UNCHANGED <<heap, TICKET_DB, TICKET_COUNTER, response, call, turns,
                   clientTurns, transcript, issued, req, loc, result, base>>

\* "for t in TICKET_DB": the global is read and an iterator made of its list
ResetLoad(t) ==
    /\ pc[t] = "reset_load"
    /\ loc' = [loc EXCEPT ![t] = ResetLocals(TRUE, <<>>, 1, <<>>)]
    /\ pc' = [pc EXCEPT ![t] = "reset_iter"]
    /\ UNCHANGED <<SESSION_DB, heap, TICKET_DB, TICKET_COUNTER, response, call, turns,
                   clientTurns, transcript, issued, req, result, base>>

\* one round of the loop: the element at idx is read and kept unless it
\* belongs to the session
ResetIter(t) ==
    /\ Iterating(t)
    /\ loc[t].idx <= Len(IterList(t))
    /\ LET item == IterList(t)[loc[t].idx]
       IN  loc' = [loc EXCEPT ![t].idx = @ + 1,
                              ![t].out = IF item.session_id # req[t].session_id
                                         THEN Append(@, item) ELSE @]
    /\ UNCHANGED <<SESSION_DB, heap, TICKET_DB, TICKET_COUNTER, response, call, turns,
                   clientTurns, transcript, issued, pc, req, result, base>>

\* the iterator is exhausted, "TICKET_DB = [...]" binds the global to the new
\* list and reset_session returns; a worker still reading the old list keeps it
ResetRebind(t) ==
    /\ Iterating(t)
    /\ loc[t].idx > Len(IterList(t))
    /\ TICKET_DB' = loc[t].out
    /\ loc' = [u \in Threads |->
                  IF u # t /\ Iterating(u) /\ loc[u].live
                  THEN [loc[u] EXCEPT !.live = FALSE, !.list = TICKET_DB]
                  ELSE loc[u]]
    /\ result' = [result EXCEPT ![t] = [NoResponse EXCEPT !.session_id = req[t].session_id]]
    /\ pc' = [pc EXCEPT ![t] = "done"]
    /\ UNCHANGED <<SESSION_DB, heap, TICKET_COUNTER, response, call, turns,
                   clientTurns, transcript, issued, req, base>>

NextResetRace ==
    \/ Warmup
    \/ \E t \in Threads :
          \/ Arrive(t)
          \/ GetState(t)
          \/ SnapshotStep(t)
          \/ NextReply(t)
          \/ SaveState(t)
          \/ TicketCheck(t)
          \/ CounterRead(t)
          \/ CounterWrite(t)
          \/ MakeTicket(t)
          \/ InsertTicket(t)
          \/ Return(t)
          \/ ResetArrive(t)
          \/ ResetPop(t)
          \/ ResetLoad(t)
          \/ ResetIter(t)
          \/ ResetRebind(t)

\* two requests on worker threads, each a message or a reset, after at most
\* MaxWarmup requests handled alone
SpecResetRace == Init /\ [][NextResetRace]_vars

\* ------------------------------------------------------------------------
\* The text functions, applied to drawn texts and states
\* ------------------------------------------------------------------------

\* states next_reply is applied to
DecideStates ==
    {DefaultState,
     [DefaultState EXCEPT !.step = COLLECT_CONTACT,
                          !.collected = [EmptyCollected EXCEPT !.name = <<"S","a","m">>]],
     [DefaultState EXCEPT !.step = HANDOFF, !.collected = FullCollected]}

\* states update_collected_from_text is applied to
ExtractStates ==
    {DefaultState, [DefaultState EXCEPT !.step = COLLECT_CONTACT, !.collected = FullCollected]}

\* match_faq_intent(text); the key of the entry returned is kept in response.reply
MatchFaq ==
    /\ \E text \in FaqTexts :
          /\ call' = [NoCall EXCEPT !.op = "match_faq_intent", !.user_message = text]
          /\ response' = [NoResponse EXCEPT
                             !.reply = Reply("none", TextFacts[text].faq.key, <<>>)]
    /\ UNCHANGED <<SESSION_DB, heap, TICKET_DB, TICKET_COUNTER, turns, clientTurns,
                   transcript, issued, threadVars>>

\* next_reply(practice_name, text, state)
Decide ==
    /\ \E text \in FaqTexts \cup DayTexts, state \in DecideStates, p \in PracticeNames :
          /\ call' = [NoCall EXCEPT !.op = "next_reply", !.user_message = text,
                                    !.old_state = state, !.old_step = state.step]
          /\ response' = [NoResponse EXCEPT
                             !.practice_name = p,
                             !.reply = next_reply(p, text, state).reply,
                             !.state = next_reply(p, text, state).state]
    /\ UNCHANGED <<SESSION_DB, heap, TICKET_DB, TICKET_COUNTER, turns, clientTurns,
                   transcript, issued, threadVars>>

\* update_collected_from_text(state, text)
Extract ==
    /\ \E text \in PhoneTexts \cup NameTexts, state \in ExtractStates :
          /\ call' = [NoCall EXCEPT !.op = "update_collected_from_text",
                                    !.user_message = text,
                                    !.old_state = state, !.old_step = state.step]
          /\ response' = [NoResponse EXCEPT
                             !.state = update_collected_from_text(state, text)]
    /\ UNCHANGED <<SESSION_DB, heap, TICKET_DB, TICKET_COUNTER, turns, clientTurns,
                   transcript, issued, threadVars>>

NextText == MatchFaq \/ Decide \/ Extract

SpecText == Init /\ [][NextText]_vars

\* ------------------------------------------------------------------------
\* Longer runs of ticket creations and resets
\* ------------------------------------------------------------------------

\* messages of the longer runs
TicketMessages == {MsgLabelsAnytime, MsgHello}

\* what payload.state is in the longer runs: absent, or a state about to hand off
TicketStates ==
    {NoState, [DefaultState EXCEPT !.step = COLLECT_CONTACT, !.collected = FullCollected]}

\* total number of requests of a longer run
MaxTicketTurns == 5

\* POST /webchat/message
TicketMessage ==
    /\ turns < MaxTicketTurns
    /\ \E sid \in Sessions, m \in TicketMessages, p \in PracticeNames, s \in TicketStates :
          /\ webchat_message(Payload(sid, m, p, NoState, s))
          /\ clientTurns' = IF s = NoState THEN clientTurns ELSE clientTurns + 1
    /\ UNCHANGED <<transcript, threadVars>>

\* POST /admin/reset_session/{session_id}
TicketReset ==
    /\ turns < MaxTicketTurns
    /\ \E sid \in Sessions : reset_session(sid)
    /\ UNCHANGED <<clientTurns, transcript, threadVars>>

NextTickets == TicketMessage \/ TicketReset

\* up to MaxTicketTurns requests, one at a time, many of them creating a ticket
SpecTickets == Init /\ [][NextTickets]_vars
\* ------------------------------------------------------------------------
\* Properties
\* ------------------------------------------------------------------------

\* the last request was a message
Answered == call.op = "webchat_message"

ContactFields == {"name", "phone", "best_time"}

\* messages that contain a medical keyword as a substring
MedicalMessages ==
    {m \in Messages : \E i \in DOMAIN MedicalKeywords : contains(MedicalKeywords[i], m)}

\* messages in which some keyword of some FAQ entry occurs, whatever the case
FaqMessages ==
    {m \in Messages :
        \E n \in DOMAIN FAQ : \E i \in DOMAIN FAQ[n].keywords :
            contains(FAQ[n].keywords[i], lower(m))}

\* messages whose first matching FAQ entry forces the contact flow
ForcingMessages ==
    {m \in FaqMessages :
        LET first == Min({n \in DOMAIN FAQ :
                            \E i \in DOMAIN FAQ[n].keywords :
                                contains(FAQ[n].keywords[i], lower(m))})
        IN  FAQ[first].forces_contact_flow}

\* tickets of a session in the ticket store
TicketsOf(session_id) == {i \in DOMAIN TICKET_DB : TICKET_DB[i].session_id = session_id}

\* C1: a message that contains a medical keyword gets the limited-response
\* template and step LIMITED_RESPONSE from every prior state, and the collected
\* name, phone and best_time are the ones the turn started with.
C1_SafetyGate ==
    (Answered /\ call.user_message \in MedicalMessages)
        => /\ response.reply.template = "limited_response_policy"
           /\ response.reply.faq = "none"
           /\ response.state.step = LIMITED_RESPONSE
           /\ response.state.collected = call.old_state.collected
           /\ stored_state(call.session_id) = response.state

C1_Witness ==
    /\ Answered
    /\ call.user_message \in MedicalMessages
    /\ call.old_step = HANDOFF
    /\ Truthy(call.old_state.collected.name)
    /\ response.state.step = LIMITED_RESPONSE

\* C2 as stated: a turn that starts in step HANDOFF ends in step HANDOFF,
\* whatever the message.
C2_HandedOffIsTerminal ==
    (Answered /\ call.old_step = HANDOFF) => response.state.step = HANDOFF

\* C2 as amended: a turn that starts in step HANDOFF ends in LIMITED_RESPONSE when
\* the message contains a medical keyword, in COLLECT_CONTACT when the message
\* matches a forcing FAQ entry and a contact field is still missing after
\* extraction, and in HANDOFF in every other case.
C2_HandedOffLeftOnlyByGateOrForcingFaq ==
    (Answered /\ call.old_step = HANDOFF)
        => response.state.step =
              (IF call.user_message \in MedicalMessages THEN LIMITED_RESPONSE
               ELSE IF /\ call.user_message \in ForcingMessages
                       /\ missing_fields(response.state.collected) # <<>>
                    THEN COLLECT_CONTACT
                    ELSE HANDOFF)

C2_Witness ==
    /\ Answered
    /\ call.old_step = HANDOFF
    /\ call.user_message \in ForcingMessages
    /\ response.state.step = COLLECT_CONTACT

\* C3 as stated: without a reset in between (a reset removes the session's
\* tickets), at most one ticket is issued for a session driven through its
\* stored state.
C3_AtMostOneTicketPerSession ==
    \A sid \in Sessions : Cardinality(TicketsOf(sid)) <= 1

\* C4: a message turn creates a ticket, and returns a ticket summary, exactly when
\* the step snapshotted before next_reply was not HANDOFF and the step after it is
\* HANDOFF; a turn on the stored state that follows a turn of the same session
\* ending in HANDOFF creates none.
C4_EdgeTriggered ==
    [][call'.op = "webchat_message" =>
          LET crosses == call'.old_step # HANDOFF /\ response'.state.step = HANDOFF
          IN  /\ (response'.ticket # NoTicketInfo) <=> crosses
              /\ (TICKET_DB' # TICKET_DB) <=> crosses
              /\ crosses =>
                    /\ Len(TICKET_DB') = Len(TICKET_DB) + 1
                    /\ Tail(TICKET_DB') = TICKET_DB
                    /\ Head(TICKET_DB').ticket_id = response'.ticket.ticket_id
                    /\ Head(TICKET_DB').session_id = call'.session_id
              /\ (/\ Answered
                  /\ response.state.step = HANDOFF
                  /\ call'.session_id = call.session_id
                  /\ call'.source = "stored"
                  /\ response'.state.step = HANDOFF) => TICKET_DB' = TICKET_DB
    ]_vars

C4_Witness ==
    /\ Answered
    /\ call.source = "stored"
    /\ call.old_step = HANDOFF
    /\ response.state.step = HANDOFF
    /\ response.ticket = NoTicketInfo
    /\ Cardinality(TicketsOf(call.session_id)) = 1

\* C5 as stated: from the empty store, "I need antibiotics for my tooth pain"
\* gets the limited-response template and step LIMITED_RESPONSE, and the labelled
\* message with "Best time: tomorrow morning" that follows in the same session
\* fills name, phone and best_time, ends in HANDOFF and creates ticket T-0001.
C5_EndToEndScenario ==
    \A sid \in Sessions :
        /\ transcript = <<Entry("webchat_message", sid, MsgAntibiotics)>>
              => /\ response.reply.template = "limited_response_policy"
                 /\ response.state.step = LIMITED_RESPONSE
        /\ transcript = <<Entry("webchat_message", sid, MsgAntibiotics),
                          Entry("webchat_message", sid, MsgLabelsTomorrow)>>
              => /\ response.state.collected.name = <<"A","l","e","x"," ","S","m","i","t","h">>
                 /\ response.state.collected.phone = <<"+","4","3","1","2","3","4","5","6","7","8","9">>
                 /\ response.state.collected.best_time = <<"t","o","m","o","r","r","o","w"," ","m","o","r","n","i","n","g">>
                 /\ response.state.step = HANDOFF
                 /\ response.ticket # NoTicketInfo
                 /\ response.ticket.ticket_id = <<"T","-","0","0","0","1">>
                 /\ Len(TICKET_DB) = 1

\* C6: a turn never changes or clears a contact field that held a non-empty value
\* when the turn started.
C6_FirstWriteWins ==
    Answered =>
        \A f \in ContactFields :
            Truthy(call.old_state.collected[f])
                => /\ response.state.collected[f] = call.old_state.collected[f]
                   /\ stored_state(call.session_id).collected[f]
                         = call.old_state.collected[f]

C6_Witness ==
    /\ Answered
    /\ call.source = "stored"
    /\ call.user_message = MsgNameJordan
    /\ call.old_state.collected.name = <<"A","l","e","x">>
    /\ response.state.collected.name = <<"A","l","e","x">>

\* C7: a turn that starts in HANDOFF with a message that has no medical keyword
\* and no FAQ keyword returns the static acknowledgment, leaves the state as
\* get_state handed it over, and creates no ticket.
C7_TerminalBranch ==
    [][(/\ call'.op = "webchat_message"
        /\ call'.old_step = HANDOFF
        /\ call'.user_message \notin MedicalMessages
        /\ call'.user_message \notin FaqMessages)
          => /\ response'.reply = Reply("already_handed_off", "none", <<>>)
             /\ response'.state = call'.old_state
             /\ heap'[SESSION_DB'[call'.session_id]] = call'.old_state
             /\ response'.ticket = NoTicketInfo
             /\ TICKET_DB' = TICKET_DB
             /\ TICKET_COUNTER' = TICKET_COUNTER
    ]_vars

C7_Witness ==
    /\ Answered
    /\ call.old_step = HANDOFF
    /\ call.user_message = MsgNameJordan
    /\ call.old_state.collected = EmptyCollected
    /\ response.state = call.old_state

\* C8: the n-th ticket ever created carries number n; a reset never lowers the
\* counter, and no two tickets ever issued share a ticket id.
C8_SequentialTicketNumbers ==
    /\ Len(issued) = TICKET_COUNTER
    /\ \A n \in DOMAIN issued : issued[n] = ticket_id_of(n)
    /\ \A i, j \in DOMAIN issued : i # j => issued[i] # issued[j]
    /\ \A i \in DOMAIN TICKET_DB :
          \E n \in DOMAIN issued : TICKET_DB[i].ticket_id = issued[n]
    /\ \A i, j \in DOMAIN TICKET_DB :
          i # j => TICKET_DB[i].ticket_id # TICKET_DB[j].ticket_id

C8_Witness ==
    /\ call.op = "webchat_message"
    /\ TICKET_COUNTER = 2
    /\ Len(TICKET_DB) = 1
    /\ TICKET_DB[1].ticket_id = <<"T","-","0","0","0","2">>
    /\ response.ticket.ticket_id = <<"T","-","0","0","0","2">>

\* elements of a list, as a set
Elements(list) == {list[i] : i \in DOMAIN list}

\* C9 as stated, for two concurrent requests of different sessions: the tickets
\* they create never share a number, and when both have returned the counter
\* equals the number of tickets created (no increment is lost).
C9_AtomicTicketCounter ==
    req["t1"].session_id # req["t2"].session_id
        => /\ \A i, j \in DOMAIN issued : i # j => issued[i] # issued[j]
           /\ AllDone => TICKET_COUNTER = Len(issued)

\* the stored state of a session and the tickets of a store are those of out
SameOutcome(session_id, out) ==
    /\ session_id \in DOMAIN out.db
    /\ stored_state(session_id) = out.db[session_id]
    /\ Elements(TICKET_DB) = Elements(out.tickets)

\* C10 as stated: when two concurrent requests on one session have both
\* returned, the stored state of the session and the tickets in the store are
\* those of one of the two orders in which the requests can run one after the
\* other.
C10_SameSessionSerialized ==
    (AllDone /\ req["t1"].session_id = req["t2"].session_id)
        => \/ SameOutcome(req["t1"].session_id,
                          handled_alone(handled_alone(base, req["t1"]), req["t2"]))
           \/ SameOutcome(req["t1"].session_id,
                          handled_alone(handled_alone(base, req["t2"]), req["t1"]))

\* a request handled alone leaves the store that handled_alone computes
HandledAloneAgrees ==
    [][(call'.op = "webchat_message" /\ AllIdle /\ call'.source \in {"stored", "default"})
          => CurrentStore' =
                handled_alone(CurrentStore,
                              Payload(call'.session_id, call'.user_message,
                                      response'.practice_name, NoState, NoState))
    ]_vars


\* the payload of the last message carried neither state nor prior_state
PlainPayload(c) == c.state = NoState /\ c.prior_state = NoState

\* C11: reset_session(s) leaves no stored state and no ticket of s, leaves the
\* states and tickets of every other session and the counter as they were (so
\* the reset of an unknown session changes nothing), and the next message of s
\* whose payload carries no state is processed from the default state.
C11_ResetRemovesExactlyTheSession ==
    [][/\ call'.op = "reset_session" =>
            /\ call'.session_id \notin DOMAIN SESSION_DB'
            /\ \A i \in DOMAIN TICKET_DB' : TICKET_DB'[i].session_id # call'.session_id
            /\ \A o \in Sessions \ {call'.session_id} :
                  /\ (o \in DOMAIN SESSION_DB') <=> (o \in DOMAIN SESSION_DB)
                  /\ o \in DOMAIN SESSION_DB
                        => heap'[SESSION_DB'[o]] = heap[SESSION_DB[o]]
            /\ TICKET_DB' = SelectSeq(TICKET_DB,
                                      LAMBDA t : t.session_id # call'.session_id)
            /\ TICKET_COUNTER' = TICKET_COUNTER
            /\ (call'.session_id \notin DOMAIN SESSION_DB /\ TicketsOf(call'.session_id) = {})
                  => SESSION_DB' = SESSION_DB /\ TICKET_DB' = TICKET_DB
       /\ (/\ call.op = "reset_session"
           /\ call'.op = "webchat_message"
           /\ call'.session_id = call.session_id
           /\ PlainPayload(call'))
            => /\ call'.old_state = DefaultState
               /\ response'.state = next_reply(response'.practice_name,
                                               call'.user_message, DefaultState).state
    ]_vars

C11_Witness ==
    /\ call.op = "reset_session"
    /\ call.session_id = "s1"
    /\ "s1" \notin DOMAIN SESSION_DB
    /\ "s2" \in DOMAIN SESSION_DB
    /\ Len(issued) = 2
    /\ Len(TICKET_DB) = 1
    /\ TICKET_DB[1].session_id = "s2"

\* entry n of FAQ has a keyword that occurs in the lower-cased text
FaqEntryMatches(n, text) ==
    \E i \in DOMAIN FAQ[n].keywords : contains(FAQ[n].keywords[i], lower(text))

\* the key match_faq_intent has to return: that of the entry that matches and
\* has no matching entry before it, "none" when no entry matches
FirstFaqKey(text) ==
    IF \A n \in DOMAIN FAQ : ~FaqEntryMatches(n, text) THEN "none"
    ELSE FAQ[CHOOSE n \in DOMAIN FAQ :
                /\ FaqEntryMatches(n, text)
                /\ \A k \in 1..(n - 1) : ~FaqEntryMatches(k, text)].key

\* texts with a keyword of the "hours" entry and one of the "booking" entry
HoursAndBookingTexts == {t \in FaqTexts : FaqEntryMatches(1, t) /\ FaqEntryMatches(3, t)}

\* C12: match_faq_intent returns the first entry, in declared order, one of whose
\* keywords occurs in the lower-cased text, and none when there is no such entry;
\* a text with an "hours" keyword and a "booking" keyword gets the hours answer
\* from next_reply, and the state is left as it was (no contact flow).
C12_FaqPriority ==
    /\ call.op = "match_faq_intent"
          => response.reply.faq = FirstFaqKey(call.user_message)
    /\ (call.op = "next_reply" /\ call.user_message \in HoursAndBookingTexts)
          => /\ response.reply.faq = "hours"
             /\ response.reply.template \in {"faq_answer", "faq_answer_still_need"}
             /\ response.state = call.old_state

C12_Witness ==
    /\ call.op = "next_reply"
    /\ call.user_message = <<"b","o","o","k"," ","T","O","M","O","R","R","O","W">>
    /\ call.old_step = LIMITED_RESPONSE
    /\ response.reply.faq = "hours"
    /\ response.state = DefaultState

\* the last message was one on which next_reply runs the extractor
ExtractingTurn ==
    /\ Answered
    /\ call.user_message \notin MedicalMessages
    /\ \/ call.user_message \in ForcingMessages
       \/ /\ call.user_message \notin FaqMessages
          /\ call.old_step \in {LIMITED_RESPONSE, COLLECT_CONTACT}

\* C13: in a turn in which next_reply runs the extractor, the collected fields
\* are those the extractor makes of the turn's own message, and the step is
\* HANDOFF when name, phone and best_time are all non-empty afterwards and
\* COLLECT_CONTACT otherwise.
C13_ExtractingTurnOutcome ==
    ExtractingTurn =>
        /\ response.state.collected
              = update_collected_from_text(call.old_state, call.user_message).collected
        /\ response.state.step =
              (IF \A f \in ContactFields : Truthy(response.state.collected[f])
               THEN HANDOFF ELSE COLLECT_CONTACT)

C13_Witness ==
    /\ ExtractingTurn
    /\ call.user_message \in ForcingMessages
    /\ call.old_step = COLLECT_CONTACT
    /\ response.state.step = HANDOFF
    /\ response.reply.template = "faq_answer_handoff"

\* messages whose first matching FAQ entry does not force the contact flow
PlainFaqMessages == FaqMessages \ ForcingMessages

\* C14: a message without a medical keyword whose FAQ entry does not force the
\* contact flow leaves the step and the collected fields as they were, in every
\* step and whatever contact details it carries, and creates no ticket.
C14_PlainFaqLeavesState ==
    [][(/\ call'.op = "webchat_message"
        /\ call'.user_message \notin MedicalMessages
        /\ call'.user_message \in PlainFaqMessages)
          => /\ response'.state = call'.old_state
             /\ heap'[SESSION_DB'[call'.session_id]] = call'.old_state
             /\ response'.reply.template \in {"faq_answer", "faq_answer_still_need"}
             /\ response'.ticket = NoTicketInfo
             /\ TICKET_DB' = TICKET_DB
             /\ TICKET_COUNTER' = TICKET_COUNTER
    ]_vars

C14_Witness ==
    /\ Answered
    /\ call.user_message = MsgLabelsTomorrow
    /\ call.old_step = COLLECT_CONTACT
    /\ call.old_state.collected.phone = None
    /\ response.state.collected.phone = None
    /\ response.state.step = COLLECT_CONTACT

\* the last call applied the extractor to a state
Extracting == call.op = "update_collected_from_text"

\* positions of s that hold one of the characters of chars
PositionsOf(s, chars) == {i \in DOMAIN s : s[i] \in chars}

DecimalDigits == {"0", "1", "2", "3", "4", "5", "6", "7", "8", "9"}

\* C15: when update_collected_from_text sets a phone that was unset, the value
\* holds only digits and "+" and at least 9 digits; for a message with fewer
\* than 9 digits in all, an unset phone stays unset.
C15_PhoneAcceptance ==
    (Extracting /\ ~Truthy(call.old_state.collected.phone))
        => /\ Truthy(response.state.collected.phone)
                => /\ PositionsOf(response.state.collected.phone, DecimalDigits \cup {"+"})
                         = DOMAIN response.state.collected.phone
                   /\ Cardinality(PositionsOf(response.state.collected.phone,
                                              DecimalDigits)) >= 9
           /\ Cardinality(PositionsOf(call.user_message, DecimalDigits)) < 9
                => response.state.collected.phone = None

C15_Witness ==
    /\ Extracting
    /\ call.user_message = <<"c","a","l","l"," ","m","e"," ","o","n"," ","0","0","4","3"," ","6","6","4"," ","1","2","3","4","5","6","7">>
    /\ call.old_state.collected.phone = None
    /\ response.state.collected.phone = <<"0","0","4","3","6","6","4","1","2","3","4","5","6","7">>

\* the texts of the model that hold a name label
NameLabelTexts ==
    {m \in Texts : \E i \in DOMAIN NameLabels : contains(NameLabels[i], lower(m))}

\* C16 as stated: for a message that holds a name label, an unset name becomes
\* the accepted label candidate or stays unset, never a phrase candidate.
C16_Original ==
    (/\ Extracting
     /\ call.old_state.collected.name = None
     /\ call.user_message \in NameLabelTexts)
        => response.state.collected.name = Extracted[call.user_message].name_label

\* C16 (amended): an unset name becomes the candidate of the first name label
\* found when that candidate is accepted; whenever the label step leaves the
\* name unset (no label, or a candidate shorter than 2), it becomes the accepted
\* candidate of the first phrase prefix found, and stays unset otherwise.
C16_NameFallback ==
    (Extracting /\ call.old_state.collected.name = None)
        => LET e == Extracted[call.user_message]
           IN  /\ e.name_label # None
                    => response.state.collected.name = e.name_label
               /\ e.name_label = None
                    => response.state.collected.name = e.name_phrase
               /\ (call.user_message \notin NameLabelTexts) => e.name_label = None

C16_Witness ==
    /\ Extracting
    /\ call.old_state.collected.name = None
    /\ call.user_message = <<"N","a","m","e",":"," ","A",","," ","I"," ","a","m"," ","B","o","b">>
    /\ response.state.collected.name = <<"B","o","b">>

\* the stored entry of session_id differs between this state and the next
StoredEntryChanges(session_id) ==
    IF session_id \in DOMAIN SESSION_DB
    THEN \/ session_id \notin DOMAIN SESSION_DB'
         \/ stored_state(session_id)' # stored_state(session_id)
    ELSE session_id \in DOMAIN SESSION_DB'

\* worker t executes save_state for session_id in this step
SaveStateStep(t, session_id) ==
    /\ pc[t] = "save_state"
    /\ pc'[t] = "ticket_check"
    /\ req[t].session_id = session_id

\* C17: the stored state of a session changes only in a save_state step, after
\* next_reply has returned (or within a request handled alone, as a whole);
\* while next_reply runs the stored entry is unchanged, also when the state it
\* was given is the stored object.
C17_StoreWrittenOnlyBySaveState ==
    [][\A sid \in Sessions :
          StoredEntryChanges(sid)
              => (AllIdle \/ \E t \in Threads : SaveStateStep(t, sid))]_vars

\* the counter value a ticket was issued with, read back from its ticket id
CounterOf(ticket) ==
    CHOOSE n \in 1..TICKET_COUNTER : ticket_id_of(n) = ticket.ticket_id

\* C18: in every reachable state of sequential ticket creations and resets,
\* TICKET_DB lists its tickets in strictly decreasing order of counter value,
\* the most recently issued remaining ticket first.
C18_NewestFirst ==
    \A i, j \in DOMAIN TICKET_DB :
        i < j => CounterOf(TICKET_DB[i]) > CounterOf(TICKET_DB[j])

C18_Witness ==
    /\ call.op = "reset_session"
    /\ Len(TICKET_DB) = 2
    /\ TICKET_DB[1].ticket_id = <<"T","-","0","0","0","4">>
    /\ TICKET_DB[2].ticket_id = <<"T","-","0","0","0","2">>

\* the state get_state is to select for the request recorded in c, from the
\* store as it is before the request
SelectedState(c) ==
    IF c.state # NoState THEN c.state
    ELSE IF c.prior_state # NoState THEN c.prior_state
    ELSE IF c.session_id \in DOMAIN SESSION_DB THEN stored_state(c.session_id)
    ELSE DefaultState

\* C19: the state handed to next_reply is payload.state if given, else
\* payload.prior_state if given, else the state stored for the session, else a
\* default state; what next_reply makes of it is saved, so after every
\* webchat_message the stored state of the session is the state of the response.
C19_StateSelection ==
    [][call'.op = "webchat_message"
          => /\ call'.old_state = SelectedState(call')
             /\ response'.state =
                   next_reply(response'.practice_name, call'.user_message,
                              SelectedState(call')).state
             /\ call'.session_id \in DOMAIN SESSION_DB'
             /\ heap'[SESSION_DB'[call'.session_id]] = response'.state]_vars

C19_Witness ==
    /\ call.op = "webchat_message"
    /\ call.state = [DefaultState EXCEPT !.step = COLLECT_CONTACT,
                                         !.collected = FullCollected]
    /\ call.prior_state # NoState
    /\ call.old_state = call.state
    /\ response.state.step = HANDOFF
    /\ stored_state(call.session_id) = response.state

\* name, phone and best_time of collected are all set
AllCollected(collected) ==
    /\ Truthy(collected.name)
    /\ Truthy(collected.phone)
    /\ Truthy(collected.best_time)

\* C20: every ticket carries a non-empty name, phone and best_time, taken from
\* the state of the response that announced it, for stored and client-supplied
\* states alike; and while no request has carried a client-supplied state, a
\* stored or returned state with step HANDOFF has all three fields set.
C20_TicketsComplete ==
    /\ \A i \in DOMAIN TICKET_DB :
          /\ TICKET_DB[i].name # <<>>
          /\ TICKET_DB[i].phone # <<>>
          /\ TICKET_DB[i].best_time # <<>>
    /\ (call.op = "webchat_message" /\ response.ticket # NoTicketInfo)
          => /\ AllCollected(response.state.collected)
             /\ TICKET_DB[1].name = response.state.collected.name
             /\ TICKET_DB[1].phone = response.state.collected.phone
             /\ TICKET_DB[1].best_time = response.state.collected.best_time
    /\ clientTurns = 0
          => /\ \A sid \in DOMAIN SESSION_DB :
                   stored_state(sid).step = HANDOFF
                       => AllCollected(stored_state(sid).collected)
             /\ response.state.step = HANDOFF => AllCollected(response.state.collected)

C20_Witness ==
    /\ call.op = "webchat_message"
    /\ call.prior_state # NoState
    /\ call.user_message = MsgLabelsAnytime
    /\ response.ticket # NoTicketInfo
    /\ TICKET_DB[1].name = <<"S","a","m">>
    /\ TICKET_DB[1].phone = <<"+","4","3","1","2","3","4","5","6","7","8","9">>
    /\ TICKET_DB[1].best_time = <<"a","n","y","t","i","m","e">>

\* the texts of the model in which "today" or "tomorrow" occurs, whatever the case
TodayTomorrowTexts ==
    {m \in Texts : contains(<<"t","o","d","a","y">>, lower(m)) \/ contains(<<"t","o","m","o","r","r","o","w">>, lower(m))}

\* "today" or "tomorrow" occurs in a collected value, whatever the case
NamesADay(value) ==
    /\ Truthy(value)
    /\ contains(<<"t","o","d","a","y">>, lower(value)) \/ contains(<<"t","o","m","o","r","r","o","w">>, lower(value))

\* the last call ran next_reply, alone or within webchat_message
Replied == call.op \in {"next_reply", "webchat_message"}

\* C21: on a message in which "today" or "tomorrow" occurs next_reply does not
\* run the extractor: name, phone and best_time stay as they were, and the step
\* changes only through the medical gate, to LIMITED_RESPONSE; so a best_time
\* that next_reply sets never holds "today" or "tomorrow".
C21_DayMessagesNotExtracted ==
    /\ (Replied /\ call.user_message \in TodayTomorrowTexts)
          => /\ response.state.collected = call.old_state.collected
             /\ IF TextFacts[call.user_message].medical
                THEN response.state.step = LIMITED_RESPONSE
                ELSE /\ response.state.step = call.old_state.step
                     /\ response.reply.faq = "hours"
    /\ (Replied /\ response.state.collected.best_time # call.old_state.collected.best_time)
          => ~NamesADay(response.state.collected.best_time)

C21_Witness ==
    /\ call.op = "next_reply"
    /\ call.user_message = <<"I"," ","w","a","n","t"," ","t","o"," ","b","o","o","k"," ","a","n"," ","a","p","p","o","i","n","t","m","e","n","t"," ","f","o","r"," ","t","o","m","o","r","r","o","w"," ","a","f","t","e","r","n","o","o","n">>
    /\ call.old_state.step = COLLECT_CONTACT
    /\ call.old_state.collected.best_time = None
    /\ response.reply.faq = "hours"
    /\ response.state = call.old_state

\* the request of worker t is a reset
IsReset(t) == req[t] = ResetPayload(req[t].session_id)

\* C22: when a reset of one session and a message of another session have both
\* returned, the ticket the message's response announces is in TICKET_DB.
C22_TicketSurvivesOtherReset ==
    AllDone =>
        \A t, u \in Threads :
            (/\ IsReset(t)
             /\ ~IsReset(u)
             /\ req[u].session_id # req[t].session_id
             /\ result[u].ticket # NoTicketInfo)
                => \E i \in DOMAIN TICKET_DB :
                       TICKET_DB[i].ticket_id = result[u].ticket.ticket_id
====
